---- MODULE Spec2Model ----
(***************************************************************************)
(* Model of the RSVP intake of main.py: the passcode gate (event_page,     *)
(* authenticate_event), the duplicate detector (check_rsvp_duplicate), the *)
(* intake handlers (rsvp_event, confirm_rsvp_anyway), the verification     *)
(* route (verify_email) and the in-memory rate limiter (is_rate_limited).  *)
(*                                                                         *)
(* A Python str is a sequence of one-character strings, so that lower(),   *)
(* strip(), len() and the e-mail pattern are computed, not assumed.  SQL   *)
(* NULL / Python None is the empty sequence Null.                          *)
(***************************************************************************)
EXTENDS Integers, Sequences, FiniteSets, TLC

\* ------------------------------------------------------------------ strings

Null == <<>>

UpperChars == <<"A","B","C","D","E","F","G","H","I","J","K","L","M",
                "N","O","P","Q","R","S","T","U","V","W","X","Y","Z">>
LowerChars == <<"a","b","c","d","e","f","g","h","i","j","k","l","m",
                "n","o","p","q","r","s","t","u","v","w","x","y","z">>
DigitChars == {"0","1","2","3","4","5","6","7","8","9"}
AlphaChars == {UpperChars[i] : i \in DOMAIN UpperChars} \cup {LowerChars[i] : i \in DOMAIN LowerChars}
SpaceChars == {" ", "\t", "\n", "\r"}

\* str.lower() on one character (ASCII letters)
LowerChar(c) ==
    IF \E i \in DOMAIN UpperChars : UpperChars[i] = c
    THEN LowerChars[CHOOSE i \in DOMAIN UpperChars : UpperChars[i] = c]
    ELSE c

\* str.lower()
Lower(str) == [i \in DOMAIN str |-> LowerChar(str[i])]

\* str.strip(): drop leading and trailing whitespace
Strip(str) ==
    LET keep == {i \in DOMAIN str : str[i] \notin SpaceChars}
    IN IF keep = {} THEN <<>>
       ELSE LET lo == CHOOSE i \in keep : \A j \in keep : i <= j
                hi == CHOOSE i \in keep : \A j \in keep : j <= i
            IN SubSeq(str, lo, hi)

\* Python truthiness of a str / None
Truthy(str) == str # <<>>

\* ------------------------------------------------------------------ isValidEmail

LocalChars == AlphaChars \cup DigitChars \cup {".", "_", "%", "+", "-"}
DomainChars == AlphaChars \cup DigitChars \cup {".", "-"}

\* ^[a-zA-Z0-9._%+-]+@[a-zA-Z0-9.-]+\.[a-zA-Z]{2,}  anchored at both ends of str
EmailPattern(str) ==
    \E at \in DOMAIN str : \E dot \in DOMAIN str :
        /\ 1 < at /\ at + 1 < dot /\ dot + 2 <= Len(str)
        /\ str[at] = "@" /\ str[dot] = "."
        /\ \A i \in 1..(at - 1) : str[i] \in LocalChars
        /\ \A i \in (at + 1)..(dot - 1) : str[i] \in DomainChars
        /\ \A i \in (dot + 1)..Len(str) : str[i] \in AlphaChars

\* re.match(pattern, email) is not None; "$" also matches before one final newline
isValidEmail(email) ==
    \/ EmailPattern(email)
    \/ /\ Len(email) > 0
       /\ email[Len(email)] = "\n"
       /\ EmailPattern(SubSeq(email, 1, Len(email) - 1))

\* ------------------------------------------------------------------ is_rate_limited

\* the timestamps of one key that are still inside the window at time t
CleanOld(stamps, window_seconds, t) ==
    SelectSeq(stamps, LAMBDA req_time : t - req_time < window_seconds)

\* mutant of RateLimited: one request more is let through
RateLimitedAbove(reqs, key, max_requests, window_seconds, t) ==
    Len(CleanOld(reqs[key], window_seconds, t)) > max_requests

\* the value is_rate_limited returns at time t
RateLimited(reqs, key, max_requests, window_seconds, t) ==
    Len(CleanOld(reqs[key], window_seconds, t)) >= max_requests

\* the ledger is_rate_limited leaves behind at time t
RateLedger(reqs, key, max_requests, window_seconds, t) ==
    LET cleaned == CleanOld(reqs[key], window_seconds, t)
    IN [reqs EXCEPT ![key] = IF Len(cleaned) >= max_requests
                             THEN cleaned
                             ELSE Append(cleaned, t)]

\* ------------------------------------------------------------------ check_rsvp_duplicate

\* mutant of SoftFields: the e-mails are compared without lower()
SoftFieldsCaseSensitive(row, email, phone) ==
    (IF Truthy(email) /\ Truthy(row.email) /\ Strip(email) = Strip(row.email)
     THEN <<"email">> ELSE <<>>)
    \o
    (IF Truthy(phone) /\ Truthy(row.phone) /\ Strip(phone) = Strip(row.phone)
     THEN <<"phone">> ELSE <<>>)

\* fields appended to duplicate_fields by one row of the scan
SoftFields(row, email, phone) ==
    (IF Truthy(email) /\ Truthy(row.email) /\ Strip(Lower(email)) = Strip(Lower(row.email))
     THEN <<"email">> ELSE <<>>)
    \o
    (IF Truthy(phone) /\ Truthy(row.phone) /\ Strip(phone) = Strip(row.phone)
     THEN <<"phone">> ELSE <<>>)

\* the for-loop over existing_rsvps, from row i on, with duplicate_fields so far
RECURSIVE DuplicateScan(_, _, _, _, _, _)
DuplicateScan(existing_rsvps, i, name, email, phone, duplicate_fields) ==
    IF i > Len(existing_rsvps)
    THEN [is_duplicate |-> FALSE, duplicate_fields |-> <<>>, existing_rsvp |-> <<>>]
    ELSE LET row == existing_rsvps[i]
             fields == duplicate_fields \o SoftFields(row, email, phone)
         IN IF Strip(Lower(name)) = Strip(Lower(row.name))
            THEN [is_duplicate |-> TRUE, duplicate_fields |-> <<"name">>,
                  existing_rsvp |-> <<row>>]
            ELSE IF fields # <<>>
            THEN [is_duplicate |-> FALSE, duplicate_fields |-> fields,
                  existing_rsvp |-> <<row>>]
            ELSE DuplicateScan(existing_rsvps, i + 1, name, email, phone, fields)

\* check_rsvp_duplicate on the rows fetchall() returned; a failed store call
\* (no connection, or an exception) answers (False, [], None)
check_rsvp_duplicate(existing_rsvps, store_ok, name, email, phone) ==
    IF store_ok
    THEN DuplicateScan(existing_rsvps, 1, name, email, phone, <<>>)
    ELSE [is_duplicate |-> FALSE, duplicate_fields |-> <<>>, existing_rsvp |-> <<>>]

\* ------------------------------------------------------------------ bounds and inputs

MaxRsvps == 3       \* rows the rsvps table may hold, and uuids rsvp_event may draw
MaxTicks == 1       \* times the clock may advance

RsvpMaxRequests == 3
RsvpWindowSeconds == 300
MinNameLen == 2
MaxNameLen == 100
MinPhoneLen == 10
MaxPhoneLen == 20

\* outcome of one call that opens a connection and runs a statement
StoreOutcomes == {"ok", "noconn", "exc"}
\* outcome of add_contact_to_segment
SegmentOutcomes == {"ok", "nocontact", "exc"}

Sessions == {"s1", "s2"}
EventIds == {"E1", "E2", "E3"}
ClientIps == {"10.0.0.1", "10.0.0.2"}
RateKeys == {<<kind, ip>> : kind \in {"rsvp", "admin_login"}, ip \in ClientIps}

\* generate_password_hash / check_password_hash
Hash(passcode) == <<"hash", passcode>>
\* mutant of check_password_hash: every secret matches
CheckAcceptsAll(passcode_hash, password) == TRUE

check_password_hash(passcode_hash, password) == passcode_hash = Hash(password)

Gala24 == <<"G","A","L","A","2","4">>
WrongCode == <<"g","a","l","a">>

NameJo == <<"J","o">>
NameAl == <<"A","l">>
NameAlRaw == <<" ","a","l"," ">>
NameBo == <<"B","o">>
EmailA == <<"a","@","b",".","c","c">>
EmailARaw == <<"A","@","B",".","c","c"," ">>
EmailC == <<"c","@","d",".","e","e">>
Phone1 == <<"5","5","5","0","0","0","0","0","0","1">>
Phone1Raw == <<" ">> \o Phone1
Phone2 == <<"5","5","5","0","0","0","0","0","0","2">>
NoteRaw == <<" ","h","i"," ">>

Form(name, email, phone, additional_info) ==
    [name |-> name, email |-> email, phone |-> phone, additional_info |-> additional_info]

NoForm == Form(<<>>, <<>>, <<>>, <<>>)

\* ------------------------------------------------------------------ state

VARIABLES
    events,     \* events table: uuid -> <<>> or <<[event_data, passcode_hash, segment_id]>>
    rsvps,      \* rsvps table, in insertion order
    auth,       \* session -> event ids with session['event_<id>_authenticated']
    pending,    \* session -> event id -> <<>> or <<session['pending_rsvp_<id>']>>
    requests,   \* is_rate_limited.requests: key -> timestamps
    now,        \* time.time(), in seconds
    uuids,      \* how many uuid4() values rsvp_event has drawn
    last,       \* the last request handled and its response
    replaced,   \* session -> event id -> the staged submission the last staging overwrote
    calls,      \* thread -> the request it is handling and where in the handler it is
    admin,      \* session -> session['admin_authenticated']
    ADMIN_CODE, \* os.getenv("ADMIN_CODE"), fixed when the process starts
    probe       \* what the environment holds for the request under examination: the
                \* input of check_rsvp_duplicate and its result, the secret typed,
                \* the link opened, the state of the mail service

vars == <<events, rsvps, auth, pending, requests, now, uuids, last, replaced, probe,
          calls, admin, ADMIN_CODE>>

\* the worker threads of the server
Threads == {"t1", "t2"}

\* a thread between two requests
NoCall == [pc |-> "idle", op |-> "none", sess |-> "s1", event |-> "E1", ip |-> "-",
           row |-> <<>>, registered |-> 0, t |-> 0, cleaned |-> <<>>]

AdminSecret == <<"a","d","m","1","n">>

\* what the handlers of guests never write: the threads (idle while requests are
\* handled one at a time), the admin credentials and the admin secret
aside == <<calls, admin, ADMIN_CODE>>

\* no request in flight, no admin logged in, the admin secret configured
InitAside ==
    /\ calls = [t \in Threads |-> NoCall]
    /\ admin = [s \in Sessions |-> FALSE]
    /\ ADMIN_CODE = AdminSecret

EventRecord(registered, passcode_hash, segment_id) ==
    [event_data |-> [registered |-> registered],
     passcode_hash |-> passcode_hash,
     segment_id |-> segment_id]

Segment1 == <<"seg-1">>

InitEvents ==
    [e \in EventIds |->
        CASE e = "E1" -> <<EventRecord(0, Hash(Gala24), Segment1)>>
          [] e = "E2" -> <<EventRecord(0, Null, Null)>>
          [] OTHER -> <<>>]

NoProbe == [existing |-> <<>>, name |-> <<>>, email |-> <<>>, phone |-> <<>>,
            result |-> <<>>]

\* the request (who, which event, from which address, the form as far as the
\* handler read it) and the response (its code, the mail handed to the sender,
\* whether every store call the handler made succeeded)
Response(op, sess, event_uuid, client_ip, form, result, sent, store_ok) ==
    [op |-> op, sess |-> sess, event |-> event_uuid, ip |-> client_ip, form |-> form,
     result |-> result, sent |-> sent, store_ok |-> store_ok]

NoIp == "-"
Idle(op) == Response(op, "s1", "E1", NoIp, NoForm, "none", <<>>, TRUE)

Init ==
    /\ events = InitEvents
    /\ rsvps = <<>>
    /\ auth = [s \in Sessions |-> {}]
    /\ pending = [s \in Sessions |-> [e \in EventIds |-> <<>>]]
    /\ requests = [k \in RateKeys |-> <<>>]
    /\ now = 0
    /\ uuids = 0
    /\ last = Idle("init")
    /\ replaced = [s \in Sessions |-> [e \in EventIds |-> <<>>]]
    /\ InitAside
    /\ probe = NoProbe

\* ------------------------------------------------------------------ record store

\* get_event_from_db: <<>> for (None, None, None); with no connection the function
\* returns the pair (None, None), which the callers' three-name unpacking rejects
\* with ValueError (see Unpacks)
get_event_from_db(event_uuid, outcome) ==
    IF outcome = "ok" THEN events[event_uuid] ELSE <<>>

Unpacks(outcome) == outcome # "noconn"

\* SELECT ... FROM rsvps WHERE event_uuid = %s
EventRows(rows, event_uuid) ==
    SelectSeq(rows, LAMBDA r : r.event_uuid = event_uuid)

\* fetchall() of a SELECT with no ORDER BY: the rows in any order
Orders(rows) ==
    {[i \in DOMAIN rows |-> rows[p[i]]] :
        p \in {q \in [DOMAIN rows -> DOMAIN rows] : \A i, j \in DOMAIN rows : q[i] = q[j] => i = j}}

\* mutant of Coalesce: the value of the new row always wins
CoalesceExcluded(a, b) == a

\* COALESCE(a, b)
Coalesce(a, b) == IF a # Null THEN a ELSE b

\* save_event_to_db(event_data, passcode, segment_id): the upsert on events
save_event_to_db(evs, event_uuid, event_data, passcode, segment_id, outcome) ==
    IF outcome # "ok" THEN evs
    ELSE LET passcode_hash == IF Truthy(passcode) THEN Hash(passcode) ELSE Null
         IN [evs EXCEPT ![event_uuid] =
                IF evs[event_uuid] = <<>>
                THEN <<[event_data |-> event_data, passcode_hash |-> passcode_hash,
                        segment_id |-> segment_id]>>
                ELSE <<[event_data |-> event_data,
                        passcode_hash |-> Coalesce(passcode_hash, evs[event_uuid][1].passcode_hash),
                        segment_id |-> Coalesce(segment_id, evs[event_uuid][1].segment_id)]>>]

\* a row of rsvps as the two INSERT statements write it
RsvpRow(event_uuid, name, email, phone, additional_info, verification_token, segment_id, segment_error) ==
    [event_uuid |-> event_uuid, name |-> name, email |-> email, phone |-> phone,
     additional_info |-> additional_info, email_verified |-> FALSE,
     verification_token |-> verification_token, segment_id |-> segment_id,
     segment_error |-> segment_error]

\* mutant of Uuid: every RSVP gets the same token
UuidReused(n) == <<"uuid", 1>>

\* str(uuid.uuid4()): a value never drawn before
Uuid(n) == <<"uuid", n>>

\* add_contact_to_segment: the segment_error it returns
SegmentError(segment_id, outcome) ==
    IF ~Truthy(segment_id) THEN Null
    ELSE CASE outcome = "ok" -> Null
           [] outcome = "nocontact" -> <<"Failed to create contact">>
           [] OTHER -> <<"Failed to add contact to segment">>

\* ------------------------------------------------------------------ rsvp_event

\* mutant of Authenticated: the credential is not scoped to the event
AuthenticatedAnywhere(sess, event_uuid) == auth[sess] # {}

\* session.get('event_<event_uuid>_authenticated')
Authenticated(sess, event_uuid) == event_uuid \in auth[sess]

\* what a handler leaves behind: its response and the state it wrote
Outcome(result, evs, rows, pend, reqs, n, sent, store_ok) ==
    [result |-> result, events |-> evs, rsvps |-> rows, pending |-> pend,
     requests |-> reqs, uuids |-> n, sent |-> sent, store_ok |-> store_ok]

\* mutant of ValidationError: the name's length is checked before the e-mail
ValidationNameFirst(name, email, phone) ==
    IF ~Truthy(name) \/ ~Truthy(email) THEN "required_fields"
    ELSE IF Len(name) < MinNameLen \/ Len(name) > MaxNameLen THEN "invalid_name"
    ELSE IF ~isValidEmail(email) THEN "invalid_email"
    ELSE IF Truthy(phone) /\ (Len(phone) < MinPhoneLen \/ Len(phone) > MaxPhoneLen)
         THEN "invalid_phone"
    ELSE "valid"

\* the validation rules of rsvp_event on the stripped fields, first failure wins
ValidationError(name, email, phone) ==
    IF ~Truthy(name) \/ ~Truthy(email) THEN "required_fields"
    ELSE IF ~isValidEmail(email) THEN "invalid_email"
    ELSE IF Len(name) < MinNameLen \/ Len(name) > MaxNameLen THEN "invalid_name"
    ELSE IF Truthy(phone) /\ (Len(phone) < MinPhoneLen \/ Len(phone) > MaxPhoneLen)
         THEN "invalid_phone"
    ELSE "valid"

\* mutant of StagePending: a slot that already holds a submission keeps it
StageKeepsFirst(pend, sess, event_uuid, name, email, phone, additional_info) ==
    IF pend[sess][event_uuid] # <<>> THEN pend
    ELSE [pend EXCEPT ![sess][event_uuid] = <<Form(name, email, phone, additional_info)>>]

\* session['pending_rsvp_<id>'] = {...}
StagePending(pend, sess, event_uuid, name, email, phone, additional_info) ==
    [pend EXCEPT ![sess][event_uuid] = <<Form(name, email, phone, additional_info)>>]

\* mutant of send_verification_email: a failure of the mail service is raised
SendRaises(email, name, token, mail_up) ==
    IF mail_up THEN <<TRUE>> ELSE <<>>

\* send_verification_email: <<TRUE>> when resend accepted the mail, <<FALSE>> when
\* it raised and the function caught it; <<>> stands for an exception leaving the
\* function, which its try/except rules out
send_verification_email(email, name, token, mail_up) ==
    IF mail_up THEN <<TRUE>> ELSE <<FALSE>>

\* rsvp_event from the INSERT on: the connection, the insert, the mail, the counter
PersistClean(event_uuid, name, email, phone, additional_info, segment_id, reqs, env, dup_ok) ==
    LET verification_token == Uuid(uuids + 1)
        segment_error == SegmentError(segment_id, env.segment)
        row == RsvpRow(event_uuid, name, email, phone, additional_info,
                       verification_token, segment_id, segment_error)
        inserted == Append(rsvps, row)
        mail == <<[email |-> email, name |-> name, token |-> verification_token]>>
        email_sent == send_verification_email(email, name, verification_token, env.mail)
        reloaded == get_event_from_db(event_uuid, env.reload)
    IN IF env.insert = "noconn"
       THEN Outcome("db_error", events, rsvps, pending, reqs, uuids + 1, <<>>, FALSE)
       ELSE IF env.insert = "exc"
       THEN Outcome("save_failed", events, rsvps, pending, reqs, uuids + 1, <<>>, FALSE)
       ELSE IF email_sent = <<>>
       THEN Outcome("save_failed", events, inserted, pending, reqs, uuids + 1, mail, FALSE)
       ELSE IF ~Unpacks(env.reload) \/ reloaded = <<>>
       THEN Outcome("save_failed", events, inserted, pending, reqs, uuids + 1, mail, FALSE)
       ELSE LET event == [reloaded[1].event_data EXCEPT
                             !.registered = reloaded[1].event_data.registered + 1]
            IN Outcome("rsvp_success",
                       save_event_to_db(events, event_uuid, event, Null, Null, env.save_event),
                       inserted, pending, reqs, uuids + 1, mail,
                       dup_ok /\ env.save_event = "ok")

\* rsvp_event, with the rows its duplicate check fetched
rsvp_event(sess, event_uuid, client_ip, form, env, existing_rsvps) ==
    LET key == <<"rsvp", client_ip>>
        reqs == RateLedger(requests, key, RsvpMaxRequests, RsvpWindowSeconds, now)
        found == get_event_from_db(event_uuid, env.get_event)
        name == Strip(form.name)
        email == Strip(form.email)
        phone == Strip(form.phone)
        additional_info == Strip(form.additional_info)
        invalid == ValidationError(name, email, phone)
        dup == check_rsvp_duplicate(existing_rsvps, env.dup_check = "ok", name, email, phone)
    IN IF ~Authenticated(sess, event_uuid)
       THEN Outcome("gate_redirect", events, rsvps, pending, requests, uuids, <<>>, TRUE)
       ELSE IF RateLimited(requests, key, RsvpMaxRequests, RsvpWindowSeconds, now)
       THEN Outcome("rate_limited", events, rsvps, pending, reqs, uuids, <<>>, TRUE)
       ELSE IF ~Unpacks(env.get_event)
       THEN Outcome("unhandled_exception", events, rsvps, pending, reqs, uuids, <<>>, FALSE)
       ELSE IF found = <<>>
       THEN Outcome("event_not_found", events, rsvps, pending, reqs, uuids, <<>>,
                    env.get_event = "ok")
       ELSE IF invalid # "valid"
       THEN Outcome(invalid, events, rsvps, pending, reqs, uuids, <<>>, TRUE)
       ELSE IF dup.is_duplicate
       THEN Outcome("name_taken", events, rsvps, pending, reqs, uuids, <<>>, TRUE)
       ELSE IF dup.duplicate_fields # <<>>
       THEN Outcome("rsvp_warning", events, rsvps,
                    StagePending(pending, sess, event_uuid, name, email, phone, additional_info),
                    reqs, uuids, <<>>, TRUE)
       ELSE PersistClean(event_uuid, name, email, phone, additional_info,
                         found[1].segment_id, reqs, env, env.dup_check = "ok")

\* ------------------------------------------------------------------ confirm_rsvp_anyway

\* confirm_rsvp_anyway from the staged submission on: the required fields, the
\* INSERT, the counter, the pop of the stage
ConfirmPending(sess, event_uuid, env, found) ==
    LET pending_rsvp == pending[sess][event_uuid][1]
        name == Strip(pending_rsvp.name)
        email == Strip(pending_rsvp.email)
        phone == Strip(pending_rsvp.phone)
        additional_info == Strip(pending_rsvp.additional_info)
        row == RsvpRow(event_uuid, name, email, phone, additional_info, Null, Null, Null)
        event == [found[1].event_data EXCEPT
                     !.registered = found[1].event_data.registered + 1]
    IN IF ~Truthy(name) \/ ~Truthy(email)
       THEN Outcome("confirm_required", events, rsvps, pending, requests, uuids, <<>>, TRUE)
       ELSE IF env.insert = "noconn"
       THEN Outcome("rsvp_success", events, rsvps, pending, requests, uuids, <<>>, FALSE)
       ELSE IF env.insert = "exc"
       THEN Outcome("confirm_error", events, rsvps, pending, requests, uuids, <<>>, FALSE)
       ELSE Outcome("rsvp_success",
                    save_event_to_db(events, event_uuid, event, Null, Null, env.save_event),
                    Append(rsvps, row),
                    [pending EXCEPT ![sess][event_uuid] = <<>>],
                    requests, uuids, <<>>, env.save_event = "ok")

\* mutant of confirm_rsvp_anyway: the confirmation runs the duplicate check again
ConfirmRechecks(sess, event_uuid, env) ==
    LET found == get_event_from_db(event_uuid, env.get_event)
        dup == check_rsvp_duplicate(EventRows(rsvps, event_uuid), TRUE,
                                    pending[sess][event_uuid][1].name,
                                    pending[sess][event_uuid][1].email,
                                    pending[sess][event_uuid][1].phone)
    IN IF ~Authenticated(sess, event_uuid)
       THEN Outcome("gate_redirect", events, rsvps, pending, requests, uuids, <<>>, TRUE)
       ELSE IF ~Unpacks(env.get_event)
       THEN Outcome("unhandled_exception", events, rsvps, pending, requests, uuids, <<>>, FALSE)
       ELSE IF found = <<>>
       THEN Outcome("event_not_found", events, rsvps, pending, requests, uuids, <<>>,
                    env.get_event = "ok")
       ELSE IF pending[sess][event_uuid] = <<>>
       THEN Outcome("no_pending", events, rsvps, pending, requests, uuids, <<>>, TRUE)
       ELSE IF dup.is_duplicate
       THEN Outcome("name_taken", events, rsvps, pending, requests, uuids, <<>>, TRUE)
       ELSE ConfirmPending(sess, event_uuid, env, found)

confirm_rsvp_anyway(sess, event_uuid, env) ==
    LET found == get_event_from_db(event_uuid, env.get_event)
    IN IF ~Authenticated(sess, event_uuid)
       THEN Outcome("gate_redirect", events, rsvps, pending, requests, uuids, <<>>, TRUE)
       ELSE IF ~Unpacks(env.get_event)
       THEN Outcome("unhandled_exception", events, rsvps, pending, requests, uuids, <<>>, FALSE)
       ELSE IF found = <<>>
       THEN Outcome("event_not_found", events, rsvps, pending, requests, uuids, <<>>,
                    env.get_event = "ok")
       ELSE IF pending[sess][event_uuid] = <<>>
       THEN Outcome("no_pending", events, rsvps, pending, requests, uuids, <<>>, TRUE)
       ELSE ConfirmPending(sess, event_uuid, env, found)

\* ------------------------------------------------------------------ passcode gate

GateOutcome(result, granted, store_ok) ==
    [result |-> result, granted |-> granted, store_ok |-> store_ok]

\* event_page: the gate, then the read-only queries that render the page
event_page(sess, event_uuid, password, env) ==
    LET found == get_event_from_db(event_uuid, env.get_event)
        rendered == IF env.render = "exc"
                    THEN GateOutcome("unhandled_exception", TRUE, FALSE)
                    ELSE GateOutcome("event_page", TRUE, env.render = "ok")
    IN IF ~Unpacks(env.get_event)
       THEN GateOutcome("unhandled_exception", FALSE, FALSE)
       ELSE IF found = <<>>
       THEN GateOutcome("event_not_found", FALSE, env.get_event = "ok")
       ELSE IF ~Truthy(found[1].passcode_hash)
       THEN rendered
       ELSE IF Truthy(password)
       THEN IF check_password_hash(found[1].passcode_hash, password)
            THEN GateOutcome("redirect_event_page", TRUE, TRUE)
            ELSE GateOutcome("invalid_passcode", FALSE, TRUE)
       ELSE IF ~Authenticated(sess, event_uuid)
       THEN GateOutcome("password_form", FALSE, TRUE)
       ELSE [rendered EXCEPT !.granted = FALSE]

\* authenticate_event
authenticate_event(sess, event_uuid, password, env) ==
    LET found == get_event_from_db(event_uuid, env.get_event)
    IN IF ~Unpacks(env.get_event)
       THEN GateOutcome("unhandled_exception", FALSE, FALSE)
       ELSE IF found = <<>>
       THEN GateOutcome("event_not_found", FALSE, env.get_event = "ok")
       ELSE IF ~Truthy(found[1].passcode_hash)
       THEN GateOutcome("redirect_event_page", TRUE, TRUE)
       ELSE IF check_password_hash(found[1].passcode_hash, password)
       THEN GateOutcome("redirect_event_page", TRUE, TRUE)
       ELSE GateOutcome("invalid_passcode", FALSE, TRUE)

\* mutant of Grant: the session is never marked
GrantNothing(sess, event_uuid, granted) == auth

\* session[session_key] = True when the handler granted
Grant(sess, event_uuid, granted) ==
    IF granted THEN [auth EXCEPT ![sess] = @ \cup {event_uuid}] ELSE auth

\* ------------------------------------------------------------------ verify_email

\* WHERE verification_token = %s: a NULL token equals nothing
TokenMatches(row, token) ==
    row.verification_token # Null /\ row.verification_token = token

\* mutant of MarkVerified: the UPDATE flips the flag
MarkToggled(rows, token) ==
    [i \in DOMAIN rows |->
        IF TokenMatches(rows[i], token)
        THEN [rows[i] EXCEPT !.email_verified = ~@]
        ELSE rows[i]]

\* UPDATE rsvps SET email_verified = TRUE WHERE verification_token = %s
MarkVerified(rows, token) ==
    [i \in DOMAIN rows |->
        IF TokenMatches(rows[i], token)
        THEN [rows[i] EXCEPT !.email_verified = TRUE]
        ELSE rows[i]]

verify_email(token, env) ==
    IF env.update = "noconn" THEN [result |-> "database_error", rsvps |-> rsvps]
    ELSE IF env.update = "exc" THEN [result |-> "error", rsvps |-> rsvps]
    ELSE IF \E i \in DOMAIN rsvps : TokenMatches(rsvps[i], token)
    THEN [result |-> "email_verified", rsvps |-> MarkVerified(rsvps, token)]
    ELSE [result |-> "invalid_or_expired", rsvps |-> rsvps]

\* ------------------------------------------------------------------ actions

RsvpEnv(get_event, dup_check, insert, reload, save_event, segment, mail) ==
    [get_event |-> get_event, dup_check |-> dup_check, insert |-> insert,
     reload |-> reload, save_event |-> save_event, segment |-> segment, mail |-> mail]

ConfirmEnv(get_event, insert, save_event) ==
    [get_event |-> get_event, insert |-> insert, save_event |-> save_event]

GateEnv(get_event, render) == [get_event |-> get_event, render |-> render]

EventPage(sess, event_uuid, password, env) ==
    \E out \in {event_page(sess, event_uuid, password, env)} :
       /\ auth' = Grant(sess, event_uuid, out.granted)
       /\ last' = Response("event_page", sess, event_uuid, NoIp, NoForm, out.result, <<>>,
                           out.store_ok)
       /\ UNCHANGED <<events, rsvps, pending, requests, now, uuids, replaced, probe, aside>>

AuthenticateEvent(sess, event_uuid, password, env) ==
    \E out \in {authenticate_event(sess, event_uuid, password, env)} :
       /\ auth' = Grant(sess, event_uuid, out.granted)
       /\ last' = Response("authenticate_event", sess, event_uuid, NoIp, NoForm,
                           out.result, <<>>, out.store_ok)
       /\ UNCHANGED <<events, rsvps, pending, requests, now, uuids, replaced, probe, aside>>

\* the responses rsvp_event gives before it reads request.form
BeforeForm == {"gate_redirect", "rate_limited", "unhandled_exception", "event_not_found"}

\* history: the staged submission that a staging by (sess, event_uuid) overwrote
Replaced(sess, event_uuid, out) ==
    IF out.result = "rsvp_warning"
    THEN [replaced EXCEPT ![sess][event_uuid] =
             IF pending[sess][event_uuid] = out.pending[sess][event_uuid]
             THEN <<>> ELSE pending[sess][event_uuid]]
    ELSE replaced

RsvpEvent(sess, event_uuid, client_ip, form, env) ==
    \E existing_rsvps \in Orders(EventRows(rsvps, event_uuid)) :
        \E out \in {rsvp_event(sess, event_uuid, client_ip, form, env, existing_rsvps)} :
            /\ Len(out.rsvps) <= MaxRsvps
            /\ out.uuids <= MaxRsvps
            /\ events' = out.events
            /\ rsvps' = out.rsvps
            /\ pending' = out.pending
            /\ requests' = out.requests
            /\ uuids' = out.uuids
            /\ replaced' = Replaced(sess, event_uuid, out)
            /\ last' = Response("rsvp_event", sess, event_uuid, client_ip,
                                IF out.result \in BeforeForm THEN NoForm ELSE form,
                                out.result, out.sent, out.store_ok)
            /\ UNCHANGED <<auth, now, probe, aside>>

\* confirm_rsvp_anyway never reads the address the request came from
ConfirmRsvpAnyway(sess, event_uuid, client_ip, env) ==
    \E out \in {confirm_rsvp_anyway(sess, event_uuid, env)} :
        /\ Len(out.rsvps) <= MaxRsvps
        /\ events' = out.events
        /\ rsvps' = out.rsvps
        /\ pending' = out.pending
        /\ last' = Response("confirm_rsvp_anyway", sess, event_uuid, client_ip, NoForm,
                            out.result, out.sent, out.store_ok)
        /\ UNCHANGED <<auth, requests, now, uuids, replaced, probe, aside>>

VerifyEmail(token, env) ==
    \E out \in {verify_email(token, env)} :
       /\ rsvps' = out.rsvps
       /\ last' = Response("verify_email", "s1", "E1", NoIp, NoForm, out.result, <<>>,
                           env.update = "ok")
       /\ UNCHANGED <<events, auth, pending, requests, now, uuids, replaced, probe, aside>>

\* the clock of time.time() advances
Tick(seconds) ==
    /\ now + seconds <= MaxTicks * RsvpWindowSeconds
    /\ now' = now + seconds
    /\ last' = Idle("tick")
    /\ UNCHANGED <<events, rsvps, auth, pending, requests, uuids, replaced, probe, aside>>

\* ------------------------------------------------------------------ the intake, one request at a time

OkRsvpEnv == RsvpEnv("ok", "ok", "ok", "ok", "ok", "ok", TRUE)
OkConfirmEnv == ConfirmEnv("ok", "ok", "ok")
OkGateEnv == GateEnv("ok", "ok")

\* the submissions: a first guest, one sharing her e-mail (in another case) and
\* phone, one sharing only her e-mail, and one sharing nothing with her but
\* spelling the second guest's name differently
SpecForms ==
    {Form(NameJo, EmailA, Phone1Raw, NoteRaw),
     Form(NameAl, EmailARaw, Phone1Raw, NoteRaw),
     Form(NameBo, EmailA, <<>>, NoteRaw),
     Form(NameAlRaw, EmailC, <<>>, NoteRaw)}
SpecIps == {"10.0.0.1"}
\* who asks for which event: two sessions on E1, one of them also on E2
SpecGuests == {<<"s1", "E1">>, <<"s1", "E2">>, <<"s2", "E1">>}

Next ==
    \/ \E g \in SpecGuests, pw \in {<<>>, Gala24} :
           EventPage(g[1], g[2], pw, OkGateEnv)
    \/ \E g \in SpecGuests, pw \in {WrongCode, Gala24} :
           AuthenticateEvent(g[1], g[2], pw, OkGateEnv)
    \/ \E g \in SpecGuests, ip \in SpecIps, f \in SpecForms :
           RsvpEvent(g[1], g[2], ip, f, OkRsvpEnv)
    \/ \E g \in SpecGuests, ip \in SpecIps :
           ConfirmRsvpAnyway(g[1], g[2], ip, OkConfirmEnv)

\* requests handled one at a time, inside one rate-limit window, with the store,
\* the segment service and the mail service all answering
Spec == Init /\ [][Next]_vars

\* ------------------------------------------------------------------ the duplicate detector alone

MaxProbeRows == 2   \* rows in the list handed to check_rsvp_duplicate

ProbeRow(name, email, phone) == [name |-> name, email |-> email, phone |-> phone]

\* rows as the table holds them: stripped names and e-mails, a phone or none
ProbeRows ==
    {ProbeRow(n, e, p) : n \in {NameJo, NameAl, NameBo}, e \in {EmailA, EmailC},
                         p \in {<<>>, Phone1}}

ProbeLists ==
    UNION {[1..k -> ProbeRows] : k \in 0..MaxProbeRows}

InitDup ==
    /\ events = InitEvents
    /\ rsvps = <<>>
    /\ auth = [s \in Sessions |-> {}]
    /\ pending = [s \in Sessions |-> [e \in EventIds |-> <<>>]]
    /\ requests = [k \in RateKeys |-> <<>>]
    /\ now = 0
    /\ uuids = 0
    /\ last = Idle("init")
    /\ replaced = [s \in Sessions |-> [e \in EventIds |-> <<>>]]
    /\ InitAside
    /\ probe \in {[existing |-> ex, name |-> n, email |-> e, phone |-> p, result |-> <<>>] :
                     ex \in ProbeLists, n \in {NameAlRaw, NameJo},
                     e \in {EmailARaw, EmailC}, p \in {<<>>, Phone1Raw}}

\* check_rsvp_duplicate is applied to the drawn input
Classify ==
    /\ probe.result = <<>>
    /\ probe' = [probe EXCEPT !.result =
                    <<check_rsvp_duplicate(probe.existing, TRUE, probe.name, probe.email,
                                           probe.phone)>>]
    /\ UNCHANGED <<events, rsvps, auth, pending, requests, now, uuids, last, replaced, aside>>

NextDup == Classify

SpecDup == InitDup /\ [][NextDup]_vars

\* ------------------------------------------------------------------ vocabulary of the claims

\* a name (or e-mail) lowercased and trimmed
Normalized(str) == Strip(Lower(str))

SameName(a, b) == Normalized(a) = Normalized(b)
SameEmail(a, b) == a # <<>> /\ b # <<>> /\ Normalized(a) = Normalized(b)
SamePhone(a, b) == a # <<>> /\ b # <<>> /\ Strip(a) = Strip(b)

\* the rows of one event, as a set
RowsOf(event_uuid) == {rsvps[i] : i \in {j \in DOMAIN rsvps : rsvps[j].event_uuid = event_uuid}}

registered(evs, event_uuid) == evs[event_uuid][1].event_data.registered

\* the step just taken handled a request of this kind
Handled(op) == last'.op = op

\* the step just taken is an rsvp_event request that passed the gate and the
\* rate limiter and whose stripped fields pass validation
ValidSubmission ==
    /\ Handled("rsvp_event")
    /\ last'.event \in auth[last'.sess]
    /\ ~RateLimited(requests, <<"rsvp", last'.ip>>, RsvpMaxRequests, RsvpWindowSeconds, now)
    /\ events[last'.event] # <<>>
    /\ Strip(last'.form.name) # <<>>
    /\ isValidEmail(Strip(last'.form.email))
    /\ Len(Strip(last'.form.name)) \in MinNameLen..MaxNameLen
    /\ (Strip(last'.form.phone) = <<>>
        \/ Len(Strip(last'.form.phone)) \in MinPhoneLen..MaxPhoneLen)

NameCollision ==
    \E r \in RowsOf(last'.event) : SameName(last'.form.name, r.name)

SoftCollision ==
    \E r \in RowsOf(last'.event) :
        SameEmail(last'.form.email, r.email) \/ SamePhone(last'.form.phone, r.phone)

\* the submission of the step just taken, as rsvp_event stages it
Submitted ==
    Form(Strip(last'.form.name), Strip(last'.form.email), Strip(last'.form.phone),
         Strip(last'.form.additional_info))

NothingPersisted == rsvps' = rsvps /\ events' = events

\* ------------------------------------------------------------------ claims

\* C1: after any sequence of submissions and confirmations handled one at a
\* time, no event has two persisted RSVPs whose names are equal after
\* lowercasing and trimming.
C1_NoTwoRsvpsShareAName ==
    \A i, j \in DOMAIN rsvps :
        (i # j /\ rsvps[i].event_uuid = rsvps[j].event_uuid)
            => ~SameName(rsvps[i].name, rsvps[j].name)

\* C2: whenever the list of existing RSVPs holds a row with the candidate's
\* normalized name, check_rsvp_duplicate answers is_duplicate = True, whatever
\* the e-mails and phones and wherever the row stands in the list.
C2_NameMatchIsExact ==
    (/\ probe.result # <<>>
     /\ \E i \in DOMAIN probe.existing : SameName(probe.name, probe.existing[i].name))
        => probe.result[1].is_duplicate

\* C3: when no existing row has the candidate's normalized name, the result is
\* not an exact duplicate and its field list holds "email" exactly when some
\* row has the same non-empty e-mail and "phone" exactly when some row has the
\* same non-empty phone, both when both match, on the same row or on two.
C3_SoftFieldsAccumulate ==
    (/\ probe.result # <<>>
     /\ \A i \in DOMAIN probe.existing : ~SameName(probe.name, probe.existing[i].name))
        => LET fields == probe.result[1].duplicate_fields
               has(f) == \E k \in DOMAIN fields : fields[k] = f
           IN /\ ~probe.result[1].is_duplicate
              /\ has("email") <=> \E i \in DOMAIN probe.existing :
                                     SameEmail(probe.email, probe.existing[i].email)
              /\ has("phone") <=> \E i \in DOMAIN probe.existing :
                                     SamePhone(probe.phone, probe.existing[i].phone)

\* the step just taken added exactly one row, for this event, with these fields
AddedRow(event_uuid, fields) ==
    /\ Len(rsvps') = Len(rsvps) + 1
    /\ SubSeq(rsvps', 1, Len(rsvps)) = rsvps
    /\ rsvps'[Len(rsvps')].event_uuid = event_uuid
    /\ rsvps'[Len(rsvps')].name = fields.name
    /\ rsvps'[Len(rsvps')].email = fields.email
    /\ rsvps'[Len(rsvps')].phone = fields.phone
    /\ rsvps'[Len(rsvps')].additional_info = fields.additional_info

\* the step just taken raised this event's registered counter by one and left
\* the other events alone
CountedOnce(event_uuid) ==
    /\ events'[event_uuid] # <<>>
    /\ registered(events', event_uuid) = registered(events, event_uuid) + 1
    /\ \A x \in EventIds \ {event_uuid} : events'[x] = events[x]

\* the row the step just taken added carries a token no other row carries
FreshToken ==
    /\ rsvps'[Len(rsvps')].verification_token # Null
    /\ \A i \in DOMAIN rsvps :
           rsvps[i].verification_token # rsvps'[Len(rsvps')].verification_token

\* C4: an authenticated, not rate-limited, valid submission that collides with
\* no RSVP of the event, with the store available, adds exactly one RSVP for
\* the event with a fresh verification token, raises the event's registered
\* counter by exactly one, and hands the submission's e-mail, name and token
\* to the notification sender.
C4_CleanSubmissionPersists ==
    [][(ValidSubmission /\ ~NameCollision /\ ~SoftCollision /\ last'.store_ok)
          => /\ last'.result = "rsvp_success"
             /\ AddedRow(last'.event, Submitted)
             /\ FreshToken
             /\ CountedOnce(last'.event)
             /\ last'.sent = <<[email |-> Submitted.email, name |-> Submitted.name,
                                token |-> rsvps'[Len(rsvps')].verification_token]>>]_vars

\* a second clean submission has been persisted and mailed
C4_Witness ==
    /\ last.op = "rsvp_event" /\ last.result = "rsvp_success"
    /\ Len(rsvps) >= 2
    /\ rsvps[Len(rsvps)].event_uuid = last.event
    /\ rsvps[Len(rsvps)].verification_token = Uuid(uuids)
    /\ last.sent # <<>>
    /\ registered(events, last.event) >= 1

\* C5: a valid submission whose normalized name equals that of an existing
\* RSVP of the event ends with name_taken and leaves the RSVPs, the registered
\* counter and the session's pending stage unchanged.
C5_NameCollisionIsRejected ==
    [][(ValidSubmission /\ NameCollision)
          => /\ last'.result = "name_taken"
             /\ NothingPersisted
             /\ pending' = pending]_vars

\* C6: a valid submission with an e-mail or phone collision and no name
\* collision is staged in the session's pending stage for the event (name,
\* e-mail, phone, note) and nothing is persisted: the RSVPs and the registered
\* counter are unchanged, no token is drawn and no mail is sent.
C6_SoftDuplicateIsStaged ==
    [][(ValidSubmission /\ ~NameCollision /\ SoftCollision)
          => /\ last'.result = "rsvp_warning"
             /\ pending' = [pending EXCEPT ![last'.sess][last'.event] = <<Submitted>>]
             /\ NothingPersisted
             /\ uuids' = uuids
             /\ last'.sent = <<>>]_vars

\* a submission sharing e-mail and phone with a stored RSVP has been staged
C6_Witness ==
    /\ last.op = "rsvp_event" /\ last.result = "rsvp_warning"
    /\ pending[last.sess][last.event] # <<>>
    /\ pending[last.sess][last.event][1].phone # <<>>
    /\ \E r \in RowsOf(last.event) :
           /\ ~SameName(r.name, pending[last.sess][last.event][1].name)
           /\ SameEmail(r.email, pending[last.sess][last.event][1].email)
           /\ r.email # pending[last.sess][last.event][1].email

\* the step just taken is a confirmation by a session holding a stage
ConfirmsStage ==
    /\ Handled("confirm_rsvp_anyway")
    /\ pending[last'.sess][last'.event] # <<>>
    /\ last'.store_ok

\* C7: confirming a staged submission persists it, raises registered by
\* exactly one, clears the session's stage for the event and gives the new
\* RSVP a non-null verification token that no other RSVP carries.
C7_ConfirmIssuesToken ==
    [][ConfirmsStage
          => /\ AddedRow(last'.event, pending[last'.sess][last'.event][1])
             /\ CountedOnce(last'.event)
             /\ pending'[last'.sess][last'.event] = <<>>
             /\ FreshToken]_vars

\* C8: the confirmation runs no second duplicate check: a session holding a
\* stage for the event gets it persisted whatever the table holds, and a
\* session holding none gets nothing persisted.
C8_ConfirmPersistsUnconditionally ==
    [][Handled("confirm_rsvp_anyway")
          => IF pending[last'.sess][last'.event] # <<>> /\ last'.store_ok
             THEN /\ last'.result = "rsvp_success"
                  /\ AddedRow(last'.event, pending[last'.sess][last'.event][1])
             ELSE NothingPersisted]_vars

\* a confirmation has persisted a name that another RSVP of the event carries
C8_Witness ==
    /\ last.op = "confirm_rsvp_anyway" /\ last.result = "rsvp_success"
    /\ Len(rsvps) >= 2
    /\ rsvps[Len(rsvps)].event_uuid = last.event
    /\ \E i \in 1..(Len(rsvps) - 1) :
           /\ rsvps[i].event_uuid = last.event
           /\ SameName(rsvps[i].name, rsvps[Len(rsvps)].name)

\* C9: after a successful confirmation, and after a successful clean
\* submission, the session's pending stage for the event is empty.
C9_StageEmptyAfterSuccess ==
    (/\ last.op \in {"rsvp_event", "confirm_rsvp_anyway"}
     /\ last.result = "rsvp_success"
     /\ last.store_ok)
        => pending[last.sess][last.event] = <<>>

\* C10: a session holds at most one stage per event; a staging overwrites it;
\* a confirmation persists the stage it finds, which is not the one that was
\* overwritten, and empties the slot; a confirmation that finds none persists
\* nothing.
C10_StageOverwrittenNotQueued ==
    [][/\ \A s \in Sessions, e \in EventIds : Len(pending'[s][e]) <= 1
       /\ (Handled("rsvp_event") /\ last'.result = "rsvp_warning")
             => pending'[last'.sess][last'.event] = <<Submitted>>
       /\ (ConfirmsStage)
             => /\ AddedRow(last'.event, pending[last'.sess][last'.event][1])
                /\ pending'[last'.sess][last'.event] = <<>>
                /\ replaced[last'.sess][last'.event] # pending[last'.sess][last'.event]
       /\ (Handled("confirm_rsvp_anyway") /\ pending[last'.sess][last'.event] = <<>>)
             => rsvps' = rsvps]_vars

\* a confirmation has persisted the second of two stagings, not the first
C10_Witness ==
    /\ last.op = "confirm_rsvp_anyway" /\ last.result = "rsvp_success"
    /\ replaced[last.sess][last.event] # <<>>
    /\ pending[last.sess][last.event] = <<>>
    /\ rsvps[Len(rsvps)].event_uuid = last.event
    /\ rsvps[Len(rsvps)].name # replaced[last.sess][last.event][1].name
    /\ \A i \in DOMAIN rsvps :
           rsvps[i].name # replaced[last.sess][last.event][1].name

\* ------------------------------------------------------------------ the passcode gate alone

\* the secrets a guest may type: none, a wrong one, the event's
Secrets == {<<>>, WrongCode, Gala24}

GateGuests == {<<"s1", "E1">>, <<"s1", "E2">>, <<"s1", "E3">>, <<"s2", "E1">>, <<"s2", "E2">>}

InitGate ==
    /\ events = InitEvents
    /\ rsvps = <<>>
    /\ auth = [s \in Sessions |-> {}]
    /\ pending = [s \in Sessions |-> [e \in EventIds |-> <<>>]]
    /\ requests = [k \in RateKeys |-> <<>>]
    /\ now = 0
    /\ uuids = 0
    /\ last = Idle("init")
    /\ replaced = [s \in Sessions |-> [e \in EventIds |-> <<>>]]
    /\ InitAside
    /\ probe = [password |-> <<>>]

\* the guest fills the password field (request.args / request.form 'password')
TypeSecret(password) ==
    /\ probe.password # password
    /\ probe' = [password |-> password]
    /\ last' = Idle("type_secret")
    /\ UNCHANGED <<events, rsvps, auth, pending, requests, now, uuids, replaced, aside>>

NextGate ==
    \/ \E password \in Secrets : TypeSecret(password)
    \/ \E g \in GateGuests : EventPage(g[1], g[2], probe.password, OkGateEnv)
    \/ \E g \in GateGuests : AuthenticateEvent(g[1], g[2], probe.password, OkGateEnv)
    \/ \E g \in GateGuests, ip \in SpecIps :
           RsvpEvent(g[1], g[2], ip, Form(NameJo, EmailA, Phone1Raw, NoteRaw), OkRsvpEnv)
    \/ \E g \in GateGuests, ip \in SpecIps :
           ConfirmRsvpAnyway(g[1], g[2], ip, OkConfirmEnv)

\* gate requests with any secret, and submissions, one at a time
SpecGate == InitGate /\ [][NextGate]_vars

\* the step just taken is a request to the gate for an event that exists
AtGate ==
    /\ last'.op \in {"event_page", "authenticate_event"}
    /\ events[last'.event] # <<>>

\* the responses of the gate that let the guest in
GateGranted == {"event_page", "redirect_event_page"}

\* C11: for an existing event with no stored passcode hash, event_page and
\* authenticate_event let the guest in and mark the session authenticated for
\* the event, whatever secret the request supplies (none, a wrong one, any).
C11_OpenEventAlwaysGrants ==
    [][(AtGate /\ events[last'.event][1].passcode_hash = Null)
          => /\ last'.result \in GateGranted
             /\ last'.event \in auth'[last'.sess]]_vars

\* a wrong secret typed at the gate of an event without passcode was let in
C11_Witness ==
    /\ last.op \in {"event_page", "authenticate_event"}
    /\ events[last.event] # <<>>
    /\ events[last.event][1].passcode_hash = Null
    /\ probe.password = WrongCode
    /\ last.result \in GateGranted
    /\ last.event \in auth[last.sess]

\* C12: for an event with a passcode hash, a session's authenticated flag for
\* the event is set only by a gate request of that session for that event whose
\* secret matches the stored hash; a secret that does not match is answered
\* 'Invalid passcode' and changes no flag of any session; and a grant sets the
\* flag of the requested event only.
C12_GrantNeedsMatchingSecret ==
    [][/\ \A s \in Sessions, e \in EventIds :
              (e \in auth'[s] /\ e \notin auth[s])
                 => /\ last'.op \in {"event_page", "authenticate_event"}
                    /\ last'.sess = s /\ last'.event = e
                    /\ events[e] # <<>>
                    /\ (events[e][1].passcode_hash # Null
                           => events[e][1].passcode_hash = Hash(probe.password))
       /\ (/\ AtGate
           /\ events[last'.event][1].passcode_hash # Null
           /\ probe.password # <<>>
           /\ events[last'.event][1].passcode_hash # Hash(probe.password))
             => (last'.result = "invalid_passcode" /\ auth' = auth)
       /\ (/\ last'.op = "authenticate_event"
           /\ events[last'.event] # <<>>
           /\ events[last'.event][1].passcode_hash # Null
           /\ probe.password = <<>>)
             => (last'.result = "invalid_passcode" /\ auth' = auth)]_vars

\* the right secret opened the protected event for one session and opened
\* nothing else
C12_Witness ==
    /\ last.op = "authenticate_event" /\ last.result = "redirect_event_page"
    /\ events[last.event] # <<>> /\ events[last.event][1].passcode_hash # Null
    /\ probe.password = Gala24
    /\ auth[last.sess] = {last.event}
    /\ \A s \in Sessions \ {last.sess} : auth[s] = {}

\* C13: once a session is authenticated for an event, every later request of
\* the session to the event page is let in, with no secret, the right secret
\* or a wrong secret.
C13_ReentryIsGranted ==
    [][(/\ last'.op = "event_page"
        /\ events[last'.event] # <<>>
        /\ last'.event \in auth[last'.sess])
          => last'.result \in GateGranted]_vars

\* the step just taken is a submission or a confirmation
AtIntake == last'.op \in {"rsvp_event", "confirm_rsvp_anyway"}

\* C14: a submission or a confirmation from a session that holds no credential
\* for the event is redirected to the gate and changes nothing: no RSVP, no
\* change of the registered counter, of the pending stage or of the rate-limit
\* ledger, no token drawn and no mail sent.
C14_NoCredentialChangesNothing ==
    [][(AtIntake /\ last'.event \notin auth[last'.sess])
          => /\ last'.result = "gate_redirect"
             /\ NothingPersisted
             /\ pending' = pending
             /\ requests' = requests
             /\ uuids' = uuids
             /\ last'.sent = <<>>]_vars

\* a session that holds a credential for another event, and a stage there, was
\* sent back to the gate of this one
C14_Witness ==
    /\ last.op \in {"rsvp_event", "confirm_rsvp_anyway"}
    /\ last.result = "gate_redirect"
    /\ last.event \notin auth[last.sess]
    /\ auth[last.sess] # {}
    /\ rsvps # <<>>
    /\ \E e \in EventIds : pending[last.sess][e] # <<>>

\* ------------------------------------------------------------------ the validation of submissions

\* field values on both sides of every rule
Blank == <<" ">>
NameJ == <<"J">>
Name100 == [i \in 1..MaxNameLen |-> "x"]
Name101 == [i \in 1..(MaxNameLen + 1) |-> "x"]
EmailNoTld == <<"a","@","b">>
Phone9 == SubSeq(Phone1, 1, MinPhoneLen - 1)
Phone20 == [i \in 1..MaxPhoneLen |-> "5"]
Phone21 == [i \in 1..(MaxPhoneLen + 1) |-> "5"]

ValidForms ==
    {Form(n, e, p, NoteRaw) :
        n \in {Blank, NameJ, NameJo, Name100, Name101},
        e \in {<<>>, EmailNoTld, EmailA},
        p \in {<<>>, Phone9, Phone20, Phone21}}

NextValid ==
    \/ EventPage("s1", "E2", <<>>, OkGateEnv)
    \/ \E ip \in SpecIps, f \in ValidForms : RsvpEvent("s1", "E2", ip, f, OkRsvpEnv)

\* one guest of the public event submits forms of every kind
SpecValid == Init /\ [][NextValid]_vars

ValidationCodes == {"required_fields", "invalid_email", "invalid_name", "invalid_phone"}

\* the code the rules assign to a form, "valid" when every rule passes
ExpectedCode(form) ==
    LET n == Strip(form.name)
        e == Strip(form.email)
        p == Strip(form.phone)
    IN CASE n = <<>> \/ e = <<>> -> "required_fields"
         [] n # <<>> /\ e # <<>> /\ ~isValidEmail(e) -> "invalid_email"
         [] n # <<>> /\ isValidEmail(e) /\ Len(n) \notin MinNameLen..MaxNameLen -> "invalid_name"
         [] /\ n # <<>> /\ isValidEmail(e) /\ Len(n) \in MinNameLen..MaxNameLen
            /\ p # <<>> /\ Len(p) \notin MinPhoneLen..MaxPhoneLen -> "invalid_phone"
         [] OTHER -> "valid"

\* the step just taken is a submission that reached the validation
ReachedValidation ==
    /\ Handled("rsvp_event")
    /\ last'.event \in auth[last'.sess]
    /\ ~RateLimited(requests, <<"rsvp", last'.ip>>, RsvpMaxRequests, RsvpWindowSeconds, now)
    /\ events[last'.event] # <<>>

\* C15: a submission that reaches the validation is answered with the code of
\* the first failing rule, in the order required_fields, invalid_email,
\* invalid_name, invalid_phone; an absent phone passes; a form that passes every
\* rule gets none of these codes; and when a rule fails nothing is persisted or
\* staged, whatever the table holds.
C15_ValidationFailsFast ==
    [][ReachedValidation
          => IF ExpectedCode(last'.form) = "valid"
             THEN last'.result \notin ValidationCodes
             ELSE /\ last'.result = ExpectedCode(last'.form)
                  /\ NothingPersisted
                  /\ pending' = pending
                  /\ uuids' = uuids
                  /\ last'.sent = <<>>]_vars

\* a form with the name of a stored RSVP and a phone too short was answered
\* invalid_phone
C15_Witness ==
    /\ last.op = "rsvp_event" /\ last.result = "invalid_phone"
    /\ \E r \in RowsOf(last.event) : SameName(r.name, last.form.name)
    /\ pending[last.sess][last.event] = <<>>

\* ------------------------------------------------------------------ the rate limit of submissions

TickSeconds == {150}

RateForms == {Form(NameJo, EmailA, Phone1Raw, NoteRaw), Form(NameJ, EmailNoTld, <<>>, NoteRaw)}

NextRate ==
    \/ EventPage("s1", "E2", <<>>, OkGateEnv)
    \/ \E ip \in ClientIps, f \in RateForms : RsvpEvent("s1", "E2", ip, f, OkRsvpEnv)
    \/ \E ip \in ClientIps : ConfirmRsvpAnyway("s1", "E2", ip, OkConfirmEnv)
    \/ \E seconds \in TickSeconds : Tick(seconds)

\* one guest submits from two addresses while the clock advances
SpecRate == Init /\ [][NextRate]_vars

\* how many submissions from this address the limiter admitted less than
\* RsvpWindowSeconds ago
AdmittedInWindow(client_ip) ==
    Cardinality({i \in DOMAIN requests[<<"rsvp", client_ip>>] :
                    now - requests[<<"rsvp", client_ip>>][i] < RsvpWindowSeconds})

\* C16: once 3 submissions from one address have been admitted within the last
\* 5 minutes, a further submission from that address (by a session holding the
\* event's credential, the gate being checked first) is answered rate_limited
\* whatever its form holds, and persists and stages nothing.
C16_FourthSubmissionIsRateLimited ==
    [][(/\ Handled("rsvp_event")
        /\ last'.event \in auth[last'.sess]
        /\ AdmittedInWindow(last'.ip) >= RsvpMaxRequests)
          => /\ last'.result = "rate_limited"
             /\ NothingPersisted
             /\ pending' = pending
             /\ uuids' = uuids
             /\ last'.sent = <<>>]_vars

\* a submission was refused for an address with three admissions spread over
\* the window, while the other address was still under its cap
C16_Witness ==
    /\ last.op = "rsvp_event" /\ last.result = "rate_limited"
    /\ now > 0
    /\ Len(requests[<<"rsvp", last.ip>>]) = RsvpMaxRequests
    /\ requests[<<"rsvp", last.ip>>][1] < requests[<<"rsvp", last.ip>>][RsvpMaxRequests]
    /\ \E ip \in ClientIps : Len(requests[<<"rsvp", ip>>]) < RsvpMaxRequests
    /\ rsvps # <<>>

\* C17: confirmations are rate limited too: a confirmation of a staged
\* submission from an address that has used up its cap is answered rate_limited
\* and persists nothing.
C17_ConfirmIsRateLimited ==
    [][(/\ Handled("confirm_rsvp_anyway")
        /\ last'.event \in auth[last'.sess]
        /\ pending[last'.sess][last'.event] # <<>>
        /\ AdmittedInWindow(last'.ip) >= RsvpMaxRequests)
          => /\ last'.result = "rate_limited"
             /\ NothingPersisted]_vars

\* ------------------------------------------------------------------ submissions while the mail service fails

MailGuests == {<<"s1", "E1">>, <<"s1", "E2">>}

MailForms ==
    {Form(NameJo, EmailA, Phone1Raw, NoteRaw), Form(NameBo, EmailA, <<>>, NoteRaw),
     Form(NameAlRaw, EmailC, <<>>, NoteRaw)}

InitMail ==
    /\ events = InitEvents
    /\ rsvps = <<>>
    /\ auth = [s \in Sessions |-> {}]
    /\ pending = [s \in Sessions |-> [e \in EventIds |-> <<>>]]
    /\ requests = [k \in RateKeys |-> <<>>]
    /\ now = 0
    /\ uuids = 0
    /\ last = Idle("init")
    /\ replaced = [s \in Sessions |-> [e \in EventIds |-> <<>>]]
    /\ InitAside
    /\ probe = [mail_up |-> TRUE]

\* resend.Emails.send starts or stops raising
MailService(mail_up) ==
    /\ probe.mail_up # mail_up
    /\ probe' = [mail_up |-> mail_up]
    /\ last' = Idle("mail_service")
    /\ UNCHANGED <<events, rsvps, auth, pending, requests, now, uuids, replaced, aside>>

NextMail ==
    \/ \E mail_up \in BOOLEAN : MailService(mail_up)
    \/ \E g \in MailGuests : EventPage(g[1], g[2], Gala24, OkGateEnv)
    \/ \E g \in MailGuests, ip \in SpecIps, f \in MailForms :
           RsvpEvent(g[1], g[2], ip, f,
                     RsvpEnv("ok", "ok", "ok", "ok", "ok", "ok", probe.mail_up))

\* submissions while the mail service comes and goes
SpecMail == InitMail /\ [][NextMail]_vars

\* C18: when the notification sender fails during a clean submission, the RSVP
\* of that submission is persisted, unverified, the registered counter is
\* raised by one and persisted, and the request ends with the success outcome.
C18_MailFailureKeepsRsvp ==
    [][(ValidSubmission /\ ~NameCollision /\ ~SoftCollision /\ ~probe.mail_up)
          => /\ last'.result = "rsvp_success"
             /\ AddedRow(last'.event, Submitted)
             /\ rsvps'[Len(rsvps')].email_verified = FALSE
             /\ CountedOnce(last'.event)]_vars

\* a clean submission succeeded while the mail service was down
C18_Witness ==
    /\ last.op = "rsvp_event" /\ last.result = "rsvp_success"
    /\ ~probe.mail_up
    /\ rsvps # <<>>
    /\ rsvps[Len(rsvps)].event_uuid = last.event
    /\ ~rsvps[Len(rsvps)].email_verified
    /\ registered(events, last.event) = Cardinality({i \in DOMAIN rsvps : rsvps[i].event_uuid = last.event})

\* ------------------------------------------------------------------ the verification links

\* the tokens of the links a guest may open: those of the first two mails, and
\* one that was never issued
NeverIssued == <<"uuid", 0>>
Tokens == {Uuid(1), Uuid(2), NeverIssued}

OkVerifyEnv == [update |-> "ok"]

InitVerify ==
    /\ events = InitEvents
    /\ rsvps = <<>>
    /\ auth = [s \in Sessions |-> {}]
    /\ pending = [s \in Sessions |-> [e \in EventIds |-> <<>>]]
    /\ requests = [k \in RateKeys |-> <<>>]
    /\ now = 0
    /\ uuids = 0
    /\ last = Idle("init")
    /\ replaced = [s \in Sessions |-> [e \in EventIds |-> <<>>]]
    /\ InitAside
    /\ probe = [token |-> NeverIssued]

\* the guest picks the link of a mail (/verify-email/<token>)
OpenLink(token) ==
    /\ probe.token # token
    /\ probe' = [token |-> token]
    /\ last' = Idle("open_link")
    /\ UNCHANGED <<events, rsvps, auth, pending, requests, now, uuids, replaced, aside>>

NextVerify ==
    \/ \E token \in Tokens : OpenLink(token)
    \/ EventPage("s1", "E2", <<>>, OkGateEnv)
    \/ \E ip \in SpecIps, f \in MailForms : RsvpEvent("s1", "E2", ip, f, OkRsvpEnv)
    \/ \E ip \in SpecIps : ConfirmRsvpAnyway("s1", "E2", ip, OkConfirmEnv)
    \/ VerifyEmail(probe.token, OkVerifyEnv)

\* submissions, confirmations and verification links, one request at a time
SpecVerify == InitVerify /\ [][NextVerify]_vars

\* the row with its verified flag set aside
Unflagged(row) == [row EXCEPT !.email_verified = FALSE]

\* C19: an RSVP starts unverified; its flag becomes true only by a verify_email
\* request carrying its token, and never becomes false again; a verify_email
\* request for a token whose RSVP is already verified changes no field of any
\* RSVP; and no submission or confirmation changes or removes a stored RSVP.
C19_VerifiedFlagIsMonotone ==
    [][/\ Len(rsvps') >= Len(rsvps)
       /\ \A i \in DOMAIN rsvps :
             /\ Unflagged(rsvps'[i]) = Unflagged(rsvps[i])
             /\ rsvps[i].email_verified => rsvps'[i].email_verified
             /\ (rsvps'[i].email_verified /\ ~rsvps[i].email_verified)
                   => /\ Handled("verify_email")
                      /\ rsvps[i].verification_token # Null
                      /\ rsvps[i].verification_token = probe.token
       /\ \A i \in DOMAIN rsvps' \ DOMAIN rsvps : ~rsvps'[i].email_verified
       /\ (/\ Handled("verify_email")
           /\ \A i \in DOMAIN rsvps :
                 rsvps[i].verification_token = probe.token => rsvps[i].email_verified)
             => rsvps' = rsvps
       /\ AtIntake => SubSeq(rsvps', 1, Len(rsvps)) = rsvps]_vars

\* a link was resolved: its RSVP is verified, while a mailed RSVP whose link
\* was not opened and a confirmed RSVP without token are not
C19_Witness ==
    /\ last.op = "verify_email" /\ last.result = "email_verified"
    /\ \E i \in DOMAIN rsvps :
           rsvps[i].verification_token = probe.token /\ rsvps[i].email_verified
    /\ \E i \in DOMAIN rsvps :
           rsvps[i].verification_token \notin {Null, probe.token} /\ ~rsvps[i].email_verified
    /\ \E i \in DOMAIN rsvps :
           rsvps[i].verification_token = Null /\ ~rsvps[i].email_verified

\* C20: a verification token is single-use: a verify_email request for a token
\* that already verified its RSVP, like one for a token no RSVP carries, is
\* answered 'Invalid or expired token'.
C20_TokenIsSingleUse ==
    [][(/\ Handled("verify_email")
        /\ \A i \in DOMAIN rsvps :
              rsvps[i].verification_token = probe.token => rsvps[i].email_verified)
          => last'.result = "invalid_or_expired"]_vars

\* ------------------------------------------------------------------ the store failing

\* one store call of the request fails
OneFault(env, call, outcome) == [env EXCEPT ![call] = outcome]

Failures == {"noconn", "exc"}

\* rsvp_event with every call answering, or with one of its store calls failing
FaultRsvpEnvs ==
    {OkRsvpEnv} \cup
    {OneFault(OkRsvpEnv, call, o) :
        call \in {"get_event", "dup_check", "insert", "reload", "save_event"}, o \in Failures}

FaultConfirmEnvs ==
    {OkConfirmEnv} \cup
    {OneFault(OkConfirmEnv, call, o) :
        call \in {"get_event", "insert", "save_event"}, o \in Failures}

FaultGateEnvs ==
    {OkGateEnv} \cup
    {OneFault(OkGateEnv, call, o) : call \in {"get_event", "render"}, o \in Failures}

\* two guests whose submissions share an e-mail, so that the second is staged
FaultForms ==
    {Form(NameJo, EmailA, Phone1Raw, NoteRaw),
     Form(NameBo, EmailA, <<>>, NoteRaw)}

FaultGuests == {<<"s1", "E1">>}

NextFault ==
    \/ \E g \in FaultGuests, pw \in {<<>>, Gala24}, env \in FaultGateEnvs :
           EventPage(g[1], g[2], pw, env)
    \/ \E g \in FaultGuests, pw \in {WrongCode, Gala24}, env \in FaultGateEnvs :
           AuthenticateEvent(g[1], g[2], pw, env)
    \/ \E g \in FaultGuests, ip \in SpecIps, f \in FaultForms, env \in FaultRsvpEnvs :
           RsvpEvent(g[1], g[2], ip, f, env)
    \/ \E g \in FaultGuests, ip \in SpecIps, env \in FaultConfirmEnvs :
           ConfirmRsvpAnyway(g[1], g[2], ip, env)
    \/ \E token \in {Uuid(1), NeverIssued}, o \in StoreOutcomes :
           VerifyEmail(token, [update |-> o])

\* requests handled one at a time, each with at most one of its store calls
\* finding no connection or raising
SpecFault == Init /\ [][NextFault]_vars

StoreHandlers ==
    {"event_page", "authenticate_event", "rsvp_event", "confirm_rsvp_anyway", "verify_email"}

\* C21: whatever store call fails, each of event_page, authenticate_event,
\* rsvp_event, confirm_rsvp_anyway and verify_email answers with a response of
\* its own; no failure of the store leaves a handler as an exception.
C21_StoreFailureIsAnswered ==
    last.op \in StoreHandlers => last.result # "unhandled_exception"

\* C22: a submission or confirmation that ends with db_error, save_failed or
\* the confirmation's error redirect has added no RSVP and has left every
\* event, its registered counter included, as it was.
C22_FailedWriteLeavesNothing ==
    [][(AtIntake /\ last'.result \in {"db_error", "save_failed", "confirm_error"})
          => NothingPersisted]_vars

\* C29: a submission or confirmation that ends with rsvp_success has added
\* exactly one RSVP, for the event of the request, also when the store gave
\* no connection.
C29_SuccessMeansOneNewRsvp ==
    [][(AtIntake /\ last'.result = "rsvp_success")
          => /\ Len(rsvps') = Len(rsvps) + 1
             /\ SubSeq(rsvps', 1, Len(rsvps)) = rsvps
             /\ rsvps'[Len(rsvps')].event_uuid = last'.event]_vars

\* C28: a submission or confirmation changes an event in nothing but its
\* registered counter: the upsert it makes passes neither passcode nor
\* segment, so the stored passcode hash and segment are kept, no event appears
\* or disappears, and a protected event stays protected.
C28_RsvpKeepsPasscodeAndSegment ==
    [][AtIntake =>
          \A e \in EventIds :
             /\ (events'[e] = <<>>) = (events[e] = <<>>)
             /\ events[e] # <<>> =>
                   /\ events'[e][1].passcode_hash = events[e][1].passcode_hash
                   /\ events'[e][1].segment_id = events[e][1].segment_id]_vars

\* an RSVP for the protected event was counted and the event still carries its
\* passcode hash and its segment
C28_Witness ==
    /\ last.op \in {"rsvp_event", "confirm_rsvp_anyway"}
    /\ last.result = "rsvp_success" /\ last.event = "E1" /\ last.store_ok
    /\ registered(events, "E1") >= 1
    /\ events["E1"][1].passcode_hash = Hash(Gala24)
    /\ events["E1"][1].segment_id = Segment1

\* the fixed window a time falls in: windows start at multiples of the length
FixedWindow(t) == t \div RsvpWindowSeconds

\* the submissions of an address admitted in the fixed window of the present
AdmittedInFixedWindow(client_ip) ==
    Cardinality({i \in DOMAIN requests[<<"rsvp", client_ip>>] :
                    FixedWindow(requests[<<"rsvp", client_ip>>][i]) = FixedWindow(now)})

\* C24: the limiter counts per key in fixed windows, not in a sliding one: a
\* submission that reaches the limiter is refused exactly when its address
\* already has max_requests admissions in the current fixed window, so the
\* count starts again at each window boundary, whatever other addresses sent.
C24_WindowIsFixed ==
    [][(Handled("rsvp_event") /\ last'.event \in auth[last'.sess])
          => (last'.result = "rate_limited"
                <=> AdmittedInFixedWindow(last'.ip) >= RsvpMaxRequests)]_vars

\* ------------------------------------------------------------------ the admin credential

AdminMaxRequests == 5
AdminWindowSeconds == 900

AdminOutcome(result, adm, reqs) == [result |-> result, admin |-> adm, requests |-> reqs]

\* mutant of AdminCodeMatches: the codes are only compared
AdminCodeEquals(admin_code, configured) == admin_code = configured

\* admin_code and ADMIN_CODE and admin_code == ADMIN_CODE
AdminCodeMatches(admin_code, configured) ==
    Truthy(admin_code) /\ Truthy(configured) /\ admin_code = configured

\* admin_login: the event, the limiter on the address, then the code of a POST
admin_login(sess, event_uuid, client_ip, method, code, env) ==
    LET found == get_event_from_db(event_uuid, env.get_event)
        key == <<"admin_login", client_ip>>
        reqs == RateLedger(requests, key, AdminMaxRequests, AdminWindowSeconds, now)
        admin_code == Strip(code)
    IN IF ~Unpacks(env.get_event)
       THEN AdminOutcome("unhandled_exception", admin, requests)
       ELSE IF found = <<>>
       THEN AdminOutcome("event_not_found", admin, requests)
       ELSE IF RateLimited(requests, key, AdminMaxRequests, AdminWindowSeconds, now)
       THEN AdminOutcome("login_rate_limited", admin, reqs)
       ELSE IF method # "POST"
       THEN AdminOutcome("admin_login_form", admin, reqs)
       ELSE IF AdminCodeMatches(admin_code, ADMIN_CODE)
       THEN AdminOutcome("redirect_event_admin", [admin EXCEPT ![sess] = TRUE], reqs)
       ELSE AdminOutcome("invalid_admin_code", admin, reqs)

\* event_admin: the credential, the event, then the read-only queries of the page
event_admin(sess, event_uuid, env) ==
    LET found == get_event_from_db(event_uuid, env.get_event)
    IN IF ~admin[sess] THEN "redirect_admin_login"
       ELSE IF ~Unpacks(env.get_event) THEN "unhandled_exception"
       ELSE IF found = <<>> THEN "event_not_found"
       ELSE IF env.render = "exc" THEN "unhandled_exception"
       ELSE "event_admin"

AdminLogin(sess, event_uuid, client_ip, method, code, env) ==
    \E out \in {admin_login(sess, event_uuid, client_ip, method, code, env)} :
       /\ admin' = out.admin
       /\ requests' = out.requests
       /\ last' = Response("admin_login", sess, event_uuid, client_ip, NoForm, out.result,
                           <<>>, env.get_event = "ok")
       /\ UNCHANGED <<events, rsvps, auth, pending, now, uuids, replaced, probe, calls,
                      ADMIN_CODE>>

EventAdmin(sess, event_uuid, env) ==
    /\ last' = Response("event_admin", sess, event_uuid, NoIp, NoForm,
                        event_admin(sess, event_uuid, env), <<>>,
                        env.get_event = "ok" /\ env.render = "ok")
    /\ UNCHANGED <<events, rsvps, auth, pending, requests, now, uuids, replaced, probe, aside>>

AdminSecretRaw == <<" ">> \o AdminSecret \o <<" ">>

\* what is typed into the admin_code field: nothing, a passcode of an event,
\* the admin secret, the admin secret between blanks
AdminCodes == {<<>>, Gala24, AdminSecret, AdminSecretRaw}

InitAdmin ==
    /\ events = InitEvents
    /\ rsvps = <<>>
    /\ auth = [s \in Sessions |-> {}]
    /\ pending = [s \in Sessions |-> [e \in EventIds |-> <<>>]]
    /\ requests = [k \in RateKeys |-> <<>>]
    /\ now = 0
    /\ uuids = 0
    /\ last = Idle("init")
    /\ replaced = [s \in Sessions |-> [e \in EventIds |-> <<>>]]
    /\ calls = [t \in Threads |-> NoCall]
    /\ admin = [s \in Sessions |-> FALSE]
    /\ ADMIN_CODE \in {Null, AdminSecret}
    /\ probe = [method |-> "GET", admin_code |-> <<>>]

\* the visitor picks the request method and fills the admin_code field
TypeAdminCode(method, code) ==
    /\ probe # [method |-> method, admin_code |-> code]
    /\ probe' = [method |-> method, admin_code |-> code]
    /\ last' = Idle("type_admin_code")
    /\ UNCHANGED <<events, rsvps, auth, pending, requests, now, uuids, replaced, aside>>

NextAdmin ==
    \/ \E method \in {"GET", "POST"}, code \in AdminCodes : TypeAdminCode(method, code)
    \/ \E s \in Sessions, e \in EventIds :
           AdminLogin(s, e, "10.0.0.1", probe.method, probe.admin_code, OkGateEnv)
    \/ \E s \in Sessions, e \in EventIds : EventAdmin(s, e, OkGateEnv)
    \/ EventPage("s1", "E1", <<>>, OkGateEnv)
    \/ \E pw \in {WrongCode, Gala24} : AuthenticateEvent("s1", "E1", pw, OkGateEnv)
    \/ RsvpEvent("s1", "E1", "10.0.0.1", Form(NameJo, EmailA, Phone1Raw, NoteRaw), OkRsvpEnv)
    \/ ConfirmRsvpAnyway("s1", "E1", "10.0.0.1", OkConfirmEnv)

\* admin logins and admin pages of two sessions, with the admin secret set or
\* unset, next to the passcode gate and the intake of one guest
SpecAdmin == InitAdmin /\ [][NextAdmin]_vars

\* C26: a session's admin credential is set only by an admin_login POST of
\* that session whose code, trimmed as the handler reads it, is not empty and
\* equals the configured admin secret, never when the secret is unset; it does
\* not go away; the passcode gate and the intake never touch it; admin_login
\* and event_admin never touch a per-event authenticated flag; and a session
\* holding it is shown the admin page of every existing event.
C26_AdminCredentialNeedsTheSecret ==
    [][/\ \A s \in Sessions :
             /\ admin[s] => admin'[s]
             /\ (admin'[s] /\ ~admin[s])
                   => /\ Handled("admin_login") /\ last'.sess = s
                      /\ probe.method = "POST"
                      /\ ADMIN_CODE # Null
                      /\ Strip(probe.admin_code) # <<>>
                      /\ Strip(probe.admin_code) = ADMIN_CODE
       /\ last'.op \notin {"admin_login", "init"} => admin' = admin
       /\ last'.op \in {"admin_login", "event_admin"} => auth' = auth
       /\ (Handled("event_admin") /\ admin[last'.sess] /\ events[last'.event] # <<>>)
             => last'.result = "event_admin"]_vars

\* a session that logged in as admin through one event, holding no passcode
\* credential, is shown the admin page of another event, while the other
\* session is sent to the login
C26_Witness ==
    /\ last.op = "event_admin" /\ last.result = "event_admin"
    /\ last.sess = "s2" /\ last.event = "E1"
    /\ admin["s2"] /\ ~admin["s1"] /\ auth["s2"] = {} /\ auth["s1"] = {"E1"}
    /\ requests[<<"admin_login", "10.0.0.1">>] # <<>>

\* ------------------------------------------------------------------ requests in flight together

\* mutant of InsertRow: the table refuses a second row with the name of another
InsertUnlessNamed(rows, row) ==
    IF \E i \in DOMAIN rows :
          /\ rows[i].event_uuid = row.event_uuid
          /\ Strip(Lower(rows[i].name)) = Strip(Lower(row.name))
    THEN rows
    ELSE Append(rows, row)

\* mutant of InsertRow: the row is lost although the statement succeeds
InsertLost(rows, row) == rows

\* INSERT INTO rsvps ... ; conn.commit(): the table has no unique constraint
InsertRow(rows, row) == Append(rows, row)

\* the thread is between two store calls of a request
InFlight(t) == calls[t].pc # "idle"

\* what the environment did so far: whether two requests were ever in flight
\* together, and whether a store call ever failed
Undisturbed == [overlapped |-> FALSE, failed |-> FALSE]

Disturb(t, starts, outcome) ==
    [overlapped |-> probe.overlapped \/ (starts /\ \E u \in Threads \ {t} : InFlight(u)),
     failed |-> probe.failed \/ outcome # "ok"]

\* the thread answers its request
Answer(t, result, sent, store_ok) ==
    /\ calls' = [calls EXCEPT ![t] = NoCall]
    /\ last' = Response(calls[t].op, calls[t].sess, calls[t].event, calls[t].ip, NoForm,
                        result, sent, store_ok)

\* the thread goes on to its next store call
Proceed(t, call) ==
    /\ calls' = [calls EXCEPT ![t] = call]
    /\ last' = Idle("in_flight")

\* rsvp_event up to the INSERT: the gate, the limiter, the event, the validation,
\* the duplicate scan, the token and the segment. With the connection of the
\* INSERT refused, db_error is the answer of exactly the requests that reach it.
RsvpStart(t, sess, event_uuid, client_ip, form) ==
    /\ ~InFlight(t)
    /\ \E existing_rsvps \in Orders(EventRows(rsvps, event_uuid)) :
        \E out \in {rsvp_event(sess, event_uuid, client_ip, form,
                               OneFault(OkRsvpEnv, "insert", "noconn"), existing_rsvps)} :
            /\ out.uuids <= MaxRsvps
            /\ pending' = out.pending
            /\ requests' = out.requests
            /\ uuids' = out.uuids
            /\ replaced' = Replaced(sess, event_uuid, out)
            /\ probe' = Disturb(t, out.result = "db_error", "ok")
            /\ IF out.result = "db_error"
               THEN Proceed(t, [NoCall EXCEPT
                                   !.pc = "insert", !.op = "rsvp_event", !.sess = sess,
                                   !.event = event_uuid, !.ip = client_ip,
                                   !.row = <<RsvpRow(event_uuid, Strip(form.name),
                                                     Strip(form.email), Strip(form.phone),
                                                     Strip(form.additional_info), Uuid(out.uuids),
                                                     events[event_uuid][1].segment_id, Null)>>])
               ELSE /\ calls' = calls
                    /\ last' = Response("rsvp_event", sess, event_uuid, client_ip,
                                        IF out.result \in BeforeForm THEN NoForm ELSE form,
                                        out.result, out.sent, out.store_ok)
            /\ UNCHANGED <<events, rsvps, auth, now, admin, ADMIN_CODE>>

\* the verification mail of a row
MailOf(row) == <<[email |-> row.email, name |-> row.name, token |-> row.verification_token]>>

\* rsvp_event: the INSERT and its commit, then the mail
RsvpInsert(t, outcome, mail_up) ==
    /\ calls[t].pc = "insert"
    /\ probe' = Disturb(t, FALSE, outcome)
    /\ CASE outcome = "ok" ->
              /\ Len(rsvps) < MaxRsvps
              /\ rsvps' = InsertRow(rsvps, calls[t].row[1])
              /\ IF send_verification_email(calls[t].row[1].email, calls[t].row[1].name,
                                            calls[t].row[1].verification_token, mail_up) = <<>>
                 THEN Answer(t, "save_failed", MailOf(calls[t].row[1]), FALSE)
                 ELSE Proceed(t, [calls[t] EXCEPT !.pc = "reload"])
         [] outcome = "noconn" ->
              /\ rsvps' = rsvps
              /\ Answer(t, "db_error", <<>>, FALSE)
         [] OTHER ->
              /\ rsvps' = rsvps
              /\ Answer(t, "save_failed", <<>>, FALSE)
    /\ UNCHANGED <<events, auth, pending, requests, now, uuids, replaced, admin, ADMIN_CODE>>

\* rsvp_event: event, _, _ = get_event_from_db(event_uuid) for the counter
RsvpReload(t, outcome) ==
    /\ calls[t].pc = "reload"
    /\ probe' = Disturb(t, FALSE, outcome)
    /\ IF Unpacks(outcome) /\ get_event_from_db(calls[t].event, outcome) # <<>>
       THEN Proceed(t, [calls[t] EXCEPT
                           !.pc = "save",
                           !.registered = registered(events, calls[t].event)])
       ELSE Answer(t, "save_failed", MailOf(calls[t].row[1]), FALSE)
    /\ UNCHANGED <<events, rsvps, auth, pending, requests, now, uuids, replaced, admin,
                   ADMIN_CODE>>

\* rsvp_event: event['registered'] = ... + 1; save_event_to_db(event, None)
RsvpSave(t, outcome) ==
    /\ calls[t].pc = "save"
    /\ probe' = Disturb(t, FALSE, outcome)
    /\ events' = save_event_to_db(events, calls[t].event,
                                  [registered |-> calls[t].registered + 1], Null, Null, outcome)
    /\ Answer(t, "rsvp_success", MailOf(calls[t].row[1]), outcome = "ok")
    /\ UNCHANGED <<rsvps, auth, pending, requests, now, uuids, replaced, admin, ADMIN_CODE>>

\* confirm_rsvp_anyway up to the INSERT: the gate, the event with its counter,
\* the staged submission. With the INSERT raising, the error redirect is the
\* answer of exactly the requests that reach it.
ConfirmStart(t, sess, event_uuid, client_ip) ==
    /\ ~InFlight(t)
    /\ \E out \in {confirm_rsvp_anyway(sess, event_uuid, OneFault(OkConfirmEnv, "insert", "exc"))} :
        /\ probe' = Disturb(t, out.result = "confirm_error", "ok")
        /\ IF out.result = "confirm_error"
           THEN Proceed(t, [NoCall EXCEPT
                               !.pc = "confirm_insert", !.op = "confirm_rsvp_anyway",
                               !.sess = sess, !.event = event_uuid, !.ip = client_ip,
                               !.registered = registered(events, event_uuid),
                               !.row = <<RsvpRow(event_uuid,
                                                 Strip(pending[sess][event_uuid][1].name),
                                                 Strip(pending[sess][event_uuid][1].email),
                                                 Strip(pending[sess][event_uuid][1].phone),
                                                 Strip(pending[sess][event_uuid][1].additional_info),
                                                 Null, Null, Null)>>])
           ELSE /\ calls' = calls
                /\ last' = Response("confirm_rsvp_anyway", sess, event_uuid, client_ip, NoForm,
                                    out.result, out.sent, out.store_ok)
    /\ UNCHANGED <<events, rsvps, auth, pending, requests, now, uuids, replaced, admin,
                   ADMIN_CODE>>

\* confirm_rsvp_anyway: the INSERT and its commit
ConfirmInsert(t, outcome) ==
    /\ calls[t].pc = "confirm_insert"
    /\ probe' = Disturb(t, FALSE, outcome)
    /\ CASE outcome = "ok" ->
              /\ Len(rsvps) < MaxRsvps
              /\ rsvps' = InsertRow(rsvps, calls[t].row[1])
              /\ Proceed(t, [calls[t] EXCEPT !.pc = "confirm_save"])
         [] outcome = "noconn" ->
              /\ rsvps' = rsvps
              /\ Answer(t, "rsvp_success", <<>>, FALSE)
         [] OTHER ->
              /\ rsvps' = rsvps
              /\ Answer(t, "confirm_error", <<>>, FALSE)
    /\ UNCHANGED <<events, auth, pending, requests, now, uuids, replaced, admin, ADMIN_CODE>>

\* confirm_rsvp_anyway: the counter written from the event read at the start,
\* then the staged submission popped
ConfirmSave(t, outcome) ==
    /\ calls[t].pc = "confirm_save"
    /\ probe' = Disturb(t, FALSE, outcome)
    /\ events' = save_event_to_db(events, calls[t].event,
                                  [registered |-> calls[t].registered + 1], Null, Null, outcome)
    /\ pending' = [pending EXCEPT ![calls[t].sess][calls[t].event] = <<>>]
    /\ Answer(t, "rsvp_success", <<>>, outcome = "ok")
    /\ UNCHANGED <<rsvps, auth, requests, now, uuids, replaced, admin, ADMIN_CODE>>

InitRace ==
    /\ events = InitEvents
    /\ rsvps = <<>>
    /\ auth = [s \in Sessions |-> {}]
    /\ pending = [s \in Sessions |-> [e \in EventIds |-> <<>>]]
    /\ requests = [k \in RateKeys |-> <<>>]
    /\ now = 0
    /\ uuids = 0
    /\ last = Idle("init")
    /\ replaced = [s \in Sessions |-> [e \in EventIds |-> <<>>]]
    /\ InitAside
    /\ probe = Undisturbed

\* two guests with one name spelled in two ways, and a third sharing an e-mail
RaceForms ==
    {Form(NameAl, EmailA, Phone1Raw, NoteRaw),
     Form(NameAlRaw, EmailC, <<>>, NoteRaw),
     Form(NameBo, EmailA, <<>>, NoteRaw)}

NextRace ==
    \/ EventPage("s1", "E2", <<>>, OkGateEnv)
    \/ \E t \in Threads, f \in RaceForms : RsvpStart(t, "s1", "E2", "10.0.0.1", f)
    \/ \E t \in Threads, o \in StoreOutcomes, mail_up \in BOOLEAN : RsvpInsert(t, o, mail_up)
    \/ \E t \in Threads, o \in StoreOutcomes : RsvpReload(t, o)
    \/ \E t \in Threads, o \in StoreOutcomes : RsvpSave(t, o)
    \/ \E t \in Threads : ConfirmStart(t, "s1", "E2", "10.0.0.1")
    \/ \E t \in Threads, o \in StoreOutcomes : ConfirmInsert(t, o)
    \/ \E t \in Threads, o \in StoreOutcomes : ConfirmSave(t, o)

\* two threads handle submissions and confirmations of one event, their store
\* calls interleaved in any order and failing in any way, the mail service up
\* or down
SpecRace == InitRace /\ [][NextRace]_vars

\* C23: the duplicate scan and the INSERT of rsvp_event are not one atomic
\* step: a thread whose scan passed inserts its row whatever the table holds by
\* then, so two submissions for one event with the same normalized name, in
\* flight together, both pass the exact-duplicate check and both get persisted.
C23_ScanThenInsertIsNotAtomic ==
    [][\A t \in Threads :
          (calls[t].pc = "insert" /\ calls'[t].pc = "reload")
             => rsvps' = Append(rsvps, calls[t].row[1])]_vars

\* both threads scanned an empty table, and both inserted: the event has two
\* RSVPs from rsvp_event whose names are equal after lowercasing and trimming
C23_Witness ==
    /\ \A t \in Threads : calls[t].op = "rsvp_event" /\ calls[t].pc = "reload"
    /\ Len(rsvps) = 2
    /\ rsvps[1].event_uuid = rsvps[2].event_uuid
    /\ SameName(rsvps[1].name, rsvps[2].name)
    /\ rsvps[1].verification_token # Null /\ rsvps[2].verification_token # Null
    /\ rsvps[1].verification_token # rsvps[2].verification_token

\* the RSVPs persisted for an event
Persisted(event_uuid) == Len(EventRows(rsvps, event_uuid))

\* C27: whatever the interleaving of submissions and confirmations and
\* whatever store calls or mails fail, the registered counter of an event never exceeds
\* the number of RSVPs persisted for it; and as long as requests were handled
\* one at a time and no store call failed, between requests the two are equal.
C27_CounterNeverOvercounts ==
    \A e \in EventIds :
        events[e] # <<>> =>
            /\ registered(events, e) <= Persisted(e)
            /\ (/\ ~probe.overlapped /\ ~probe.failed
                /\ \A t \in Threads : ~InFlight(t))
                  => registered(events, e) = Persisted(e)

\* two requests in flight together, no store call failing, left the counter
\* behind: two RSVPs persisted, one counted, no request in flight
C27_Witness ==
    /\ probe.overlapped /\ ~probe.failed
    /\ \A t \in Threads : ~InFlight(t)
    /\ Persisted("E2") = 2
    /\ registered(events, "E2") = 1

\* ------------------------------------------------------------------ the limiter called by two threads

MaxAdmissions == 4   \* calls admitted per key before the threads stop calling

LimiterKeys == {<<"rsvp", ip>> : ip \in SpecIps}

\* is_rate_limited(key, 3, 300) begins: now = time.time()
LimitEnter(t, client_ip) ==
    /\ ~InFlight(t)
    /\ Len(probe.admitted[<<"rsvp", client_ip>>]) < MaxAdmissions
    /\ Proceed(t, [NoCall EXCEPT !.pc = "filter", !.op = "is_rate_limited",
                                 !.ip = client_ip, !.t = now])
    /\ UNCHANGED <<events, rsvps, auth, pending, requests, now, uuids, replaced, probe,
                   admin, ADMIN_CODE>>

\* the list comprehension reads the list of the key and keeps the recent stamps
LimitFilter(t) ==
    /\ calls[t].pc = "filter"
    /\ Proceed(t, [calls[t] EXCEPT
                      !.pc = "assign",
                      !.cleaned = CleanOld(requests[<<"rsvp", calls[t].ip>>],
                                           RsvpWindowSeconds, calls[t].t)])
    /\ UNCHANGED <<events, rsvps, auth, pending, requests, now, uuids, replaced, probe,
                   admin, ADMIN_CODE>>

\* is_rate_limited.requests[key] = [...]: the kept stamps replace the list
LimitAssign(t) ==
    /\ calls[t].pc = "assign"
    /\ requests' = [requests EXCEPT ![<<"rsvp", calls[t].ip>>] = calls[t].cleaned]
    /\ Proceed(t, [calls[t] EXCEPT !.pc = "check"])
    /\ UNCHANGED <<events, rsvps, auth, pending, now, uuids, replaced, probe, admin,
                   ADMIN_CODE>>

\* if len(is_rate_limited.requests[key]) >= max_requests: return True
LimitCheck(t) ==
    /\ calls[t].pc = "check"
    /\ IF Len(requests[<<"rsvp", calls[t].ip>>]) >= RsvpMaxRequests
       THEN Answer(t, "rate_limited", <<>>, TRUE)
       ELSE Proceed(t, [calls[t] EXCEPT !.pc = "append"])
    /\ UNCHANGED <<events, rsvps, auth, pending, requests, now, uuids, replaced, probe,
                   admin, ADMIN_CODE>>

\* is_rate_limited.requests[key].append(now); return False
LimitAppend(t) ==
    /\ calls[t].pc = "append"
    /\ requests' = [requests EXCEPT ![<<"rsvp", calls[t].ip>>] = Append(@, calls[t].t)]
    /\ probe' = [probe EXCEPT !.admitted[<<"rsvp", calls[t].ip>>] = Append(@, calls[t].t)]
    /\ Answer(t, "admitted", <<>>, TRUE)
    /\ UNCHANGED <<events, rsvps, auth, pending, now, uuids, replaced, admin, ADMIN_CODE>>

InitLimiter ==
    /\ events = InitEvents
    /\ rsvps = <<>>
    /\ auth = [s \in Sessions |-> {}]
    /\ pending = [s \in Sessions |-> [e \in EventIds |-> <<>>]]
    /\ requests = [k \in RateKeys |-> <<>>]
    /\ now = 0
    /\ uuids = 0
    /\ last = Idle("init")
    /\ replaced = [s \in Sessions |-> [e \in EventIds |-> <<>>]]
    /\ InitAside
    /\ probe = [admitted |-> [k \in LimiterKeys |-> <<>>]]

NextLimiter ==
    \/ \E t \in Threads, ip \in SpecIps : LimitEnter(t, ip)
    \/ \E t \in Threads : LimitFilter(t)
    \/ \E t \in Threads : LimitAssign(t)
    \/ \E t \in Threads : LimitCheck(t)
    \/ \E t \in Threads : LimitAppend(t)
    \/ \E seconds \in TickSeconds : Tick(seconds)

\* two threads call is_rate_limited for one address, every statement of one
\* call interleaved with those of the other; probe.admitted keeps the time of
\* every call that was admitted
SpecLimiter == InitLimiter /\ [][NextLimiter]_vars

\* the stamps of a list that lie in the window ending now
InWindow(stamps) == CleanOld(stamps, RsvpWindowSeconds, now)

\* C25: concurrent calls of is_rate_limited for one key update its ledger
\* atomically: in every interleaving the calls admitted for a key within one
\* window are at most max_requests, and between calls the ledger holds the
\* stamp of every call admitted within the window.
C25_LedgerIsUpdatedAtomically ==
    \A k \in LimiterKeys :
        /\ Len(InWindow(probe.admitted[k])) <= RsvpMaxRequests
        /\ (\A t \in Threads : ~InFlight(t))
              => InWindow(requests[k]) = InWindow(probe.admitted[k])

====
